---- MODULE Spec2Model ----
(***************************************************************************)
(* jjyou::geo::HalfedgeMesh (src/include/jjyou/geo/HalfedgeMesh.hpp).      *)
(*                                                                         *)
(* The state is one HalfedgeMesh instance: its three backing arrays, the   *)
(* arguments of the last load() call and what that call did.  Handles are  *)
(* the wrapped std::size_t itself; array slot i of the C++ vectors is      *)
(* element i + 1 of the sequences below.                                   *)
(*                                                                         *)
(* Inputs: load() is given a number of points (positions are never read)   *)
(* and a list of faces whose entries are vertex indices below that number, *)
(* which is the input contract of the class.                               *)
(***************************************************************************)
EXTENDS Integers, Sequences, FiniteSets, TLC

VARIABLES
    vertexInfo,     \* std::vector<VertexInfo>
    halfedgeInfo,   \* std::vector<HalfedgeInfo>
    faceInfo,       \* std::vector<FaceInfo>
    points,         \* points.size() of the last load() call
    faces,          \* faces argument of the last load() call
    ret,            \* "none" before any call, "true"/"false" as returned,
                    \* "trap" when the call faulted instead of returning
    loads,          \* number of load() calls made on this instance
    supplied,       \* number of faces handed to this instance so far
    readers,        \* per reader of the instance: the range-for it is in
    handle          \* an index handle held by a caller: its class, its idx(),
                    \* the operation that made it, the operations since construction

vars == <<vertexInfo, halfedgeInfo, faceInfo, points, faces, ret, loads, supplied,
          readers, handle>>

(***************************************************************************)
(* Bounds of the model.                                                    *)
(***************************************************************************)
MaxPoints == 3      \* largest points.size() of an enumerated input
MaxFaceLen == 3     \* longest face of an enumerated input
MaxFaces == 2       \* faces handed to one instance over all its loads
MaxLoads == 2       \* load() calls on one instance
MaxGarbage == 1     \* largest in-range value an indeterminate read yields
SizeBits == 16      \* modelled width of std::size_t
NumReaders == 2     \* readers that traverse the instance side by side
MaxStep == 3        \* largest |n| of handle + n and handle - n
MaxOps == 3         \* operations applied to one handle after its construction

(***************************************************************************)
(* IndexBase: a wrapped std::size_t; the maximum value is "invalid".       *)
(***************************************************************************)
SizeMax == 2^SizeBits - 1

valid(i) == i # SizeMax

IndexPlus(i, n) == (i + n) % (2^SizeBits)

IndexMinus(i, n) == (i - n + 2^SizeBits) % (2^SizeBits)

\* The default argument of the explicit constructor: IndexBase().idx().
IndexBase == SizeMax

\* IndexBase::reset, as the idx() it leaves.
IndexReset(i) == SizeMax

\* operator++ with a bounds check the code does not have.
IndexInc_Saturating(i) == IF i = SizeMax THEN i ELSE i + 1

\* operator++ and operator++(int): _idx += 1 on an unsigned integer.
IndexInc(i) == (i + 1) % (2^SizeBits)

\* operator-- and operator--(int): _idx -= 1 on an unsigned integer.
IndexDec(i) == (i - 1 + 2^SizeBits) % (2^SizeBits)

\* The six comparison operators: each compares the two _idx.
IndexEq(a, b) == a = b
IndexNe(a, b) == a # b
IndexGe(a, b) == a >= b
IndexGt(a, b) == a > b
IndexLe(a, b) == a <= b
IndexLt(a, b) == a < b

\* The four handle classes; each forwards every operator to its IndexBase<N>.
IndexTypes == {"VertexIndex", "HalfedgeIndex", "FaceIndex", "EdgeIndex"}

(***************************************************************************)
(* The records of the three arrays, as their default constructors leave    *)
(* them.                                                                   *)
(***************************************************************************)
VertexInfo == [halfedge |-> SizeMax, removed |-> FALSE]

HalfedgeInfo == [next |-> SizeMax, prev |-> SizeMax, target |-> SizeMax,
                 face |-> SizeMax, removed |-> FALSE]

FaceInfo == [halfedge |-> SizeMax, removed |-> FALSE]

\* The mesh the queries below read: the current instance.
this == [vertexInfo |-> vertexInfo, halfedgeInfo |-> halfedgeInfo, faceInfo |-> faceInfo]

\* std::vector::resize(n): truncate, or append default-constructed elements.
resize(s, n, d) ==
    IF n <= Len(s) THEN SubSeq(s, 1, n)
    ELSE s \o [i \in 1..(n - Len(s)) |-> d]

(***************************************************************************)
(* Read queries.                                                           *)
(***************************************************************************)
numVertices(m) == Len(m.vertexInfo)

numHalfedges(m) == Len(m.halfedgeInfo)

numFaces(m) == Len(m.faceInfo)

numEdges(m) == Len(m.halfedgeInfo) \div 2

vertexOutgoingHalfedge(m, v) ==
    IF v < numVertices(m) THEN m.vertexInfo[v + 1].halfedge ELSE SizeMax

halfedgeTargetVertex(m, h) ==
    IF h < numHalfedges(m) THEN m.halfedgeInfo[h + 1].target ELSE SizeMax

\* halfedgeOppositeHalfedge with the parity test dropped: always the next slot.
halfedgeOppositeHalfedge_NoParity(m, h) ==
    IF h < numHalfedges(m) THEN IndexPlus(h, 1) ELSE SizeMax

halfedgeOppositeHalfedge(m, h) ==
    IF h < numHalfedges(m)
    THEN (IF h % 2 = 1 THEN IndexMinus(h, 1) ELSE IndexPlus(h, 1))
    ELSE SizeMax

vertexIngoingHalfedge(m, v) == halfedgeOppositeHalfedge(m, vertexOutgoingHalfedge(m, v))

halfedgeSourceVertex(m, h) == halfedgeTargetVertex(m, halfedgeOppositeHalfedge(m, h))

halfedgeNextHalfedge(m, h) ==
    IF h < numHalfedges(m) THEN m.halfedgeInfo[h + 1].next ELSE SizeMax

halfedgePreviousHalfedge(m, h) ==
    IF h < numHalfedges(m) THEN m.halfedgeInfo[h + 1].prev ELSE SizeMax

halfedgeAssociatedFace(m, h) ==
    IF h < numHalfedges(m) THEN m.halfedgeInfo[h + 1].face ELSE SizeMax

\* halfedgeAssociatedEdge without the test of the index against numHalfedges().
halfedgeAssociatedEdge_NoGuard(m, h) == h \div 2

halfedgeAssociatedEdge(m, h) ==
    IF h < numHalfedges(m) THEN h \div 2 ELSE SizeMax

faceAssociatedHalfedge(m, f) ==
    IF f < numFaces(m) THEN m.faceInfo[f + 1].halfedge ELSE SizeMax

\* edgeAssociatedHalfedge with the direction flag ignored.
edgeAssociatedHalfedge_NoDir(m, e, dir) ==
    IF e < numEdges(m) THEN e * 2 ELSE SizeMax

edgeAssociatedHalfedge(m, e, dir) ==
    IF e < numEdges(m)
    THEN (IF dir THEN e * 2 ELSE e * 2 + 1)
    ELSE SizeMax

\* HalfedgeMesh::reset has an empty body: the arrays are left as they are.
reset(m) == m

(***************************************************************************)
(* load().  The state threaded through the loops is                        *)
(*   m      the three arrays,                                              *)
(*   edges  the local std::map from (smaller, larger) vertex to EdgeIndex, *)
(*   fh     the local vector faceHalfedges of the current face.            *)
(***************************************************************************)

\* f[(hi - 1 + f.size()) % f.size()] and f[hi] of the two inner loops.
StepV1(f, hi) == f[((hi - 1 + Len(f)) % Len(f)) + 1]

StepV2(f, hi) == f[hi + 1]

\* dir without the test of v1 > v2: always the first half-edge of the pair.
StepDir_Always(v1, v2) == TRUE

\* The branch on v1 > v2 of the first inner loop: dir and key.
StepDir(v1, v2) == ~(v1 > v2)

\* The key without the swap of the v1 > v2 branch.
StepKey_Directed(v1, v2) == <<v1, v2>>

StepKey(v1, v2) == IF v1 > v2 THEN <<v2, v1>> ELSE <<v1, v2>>

\* The two emplace_back() calls made for a key that was not in edges.
AllocateEdge(hinfo) == hinfo \o <<HalfedgeInfo, HalfedgeInfo>>

\* One iteration of the first inner loop: look the step's key up in edges
\* (operator[] inserts an invalid EdgeIndex when the key is absent), give a
\* new key the index edges.size() - 1 and a pair of half-edge records, and
\* record the step's half-edge in faceHalfedges[hi].
AssignStep(m, edges, f, hi, fh) ==
    LET v1 == StepV1(f, hi)
        v2 == StepV2(f, hi)
        dir == StepDir(v1, v2)
        key == StepKey(v1, v2)
        isNew == key \notin DOMAIN edges
        edges1 == IF isNew THEN (key :> Cardinality(DOMAIN edges)) @@ edges
                  ELSE edges
        m1 == IF isNew THEN [m EXCEPT !.halfedgeInfo = AllocateEdge(@)] ELSE m
        h == edgeAssociatedHalfedge(m1, edges1[key], dir)
    IN [m |-> m1, edges |-> edges1, fh |-> [fh EXCEPT ![hi + 1] = h]]

\* First inner loop, iterations hi .. f.size()-1.
RECURSIVE AssignHalfedges(_, _, _, _, _)
AssignHalfedges(m, edges, f, hi, fh) ==
    IF hi >= Len(f) THEN [m |-> m, edges |-> edges, fh |-> fh]
    ELSE LET a == AssignStep(m, edges, f, hi, fh)
         IN AssignHalfedges(a.m, a.edges, f, hi + 1, a.fh)

\* faceHalfedges[(hi + 1) % f.size()] and faceHalfedges[(hi - 1 + f.size()) % f.size()].
\* next without the + 1: the step's own half-edge.
StepNext_Self(fh, hi) == fh[(hi % Len(fh)) + 1]

StepNext(fh, hi) == fh[((hi + 1) % Len(fh)) + 1]

StepPrev(fh, hi) == fh[((hi - 1 + Len(fh)) % Len(fh)) + 1]

\* The writes of one iteration of the second inner loop, after its check.
LinkStep(m, f, fi, fh, hi) ==
    LET v1 == StepV1(f, hi)
        v2 == StepV2(f, hi)
        h == fh[hi + 1]
        vinfo == IF ~valid(m.vertexInfo[v1 + 1].halfedge)
                 THEN [m.vertexInfo EXCEPT ![v1 + 1].halfedge = h]
                 ELSE m.vertexInfo
        hinfo == [m.halfedgeInfo EXCEPT
                    ![h + 1].next = StepNext(fh, hi),
                    ![h + 1].prev = StepPrev(fh, hi),
                    ![h + 1].target = v2,
                    ![h + 1].face = fi]
        m1 == [m EXCEPT !.vertexInfo = vinfo, !.halfedgeInfo = hinfo]
        oppoHalfedge == halfedgeOppositeHalfedge(m1, h)
    IN [m1 EXCEPT !.halfedgeInfo[oppoHalfedge + 1].target = v1]

\* Second inner loop, iterations hi .. f.size()-1: a step whose half-edge
\* already has a face ends load() with false, after reset().
RECURSIVE LinkFace(_, _, _, _, _)
LinkFace(m, f, fi, fh, hi) ==
    IF hi >= Len(f) THEN [m |-> m, ok |-> TRUE]
    ELSE IF valid(m.halfedgeInfo[fh[hi + 1] + 1].face)
         THEN [m |-> reset(m), ok |-> FALSE]
         ELSE LinkFace(LinkStep(m, f, fi, fh, hi), f, fi, fh, hi + 1)

\* What reading faceHalfedges[0] of an empty vector can do: fault, or yield
\* some value.
Trap == -1

Indeterminate == {Trap, SizeMax} \cup (0..MaxGarbage)

\* Outer loop, iterations fi .. faces.size()-1.  ub[fi + 1] is what the read
\* of faceHalfedges[0] does for a face with no vertices.
RECURSIVE LoadFaces(_, _, _, _, _)
LoadFaces(m, edges, fs, fi, ub) ==
    IF fi >= Len(fs) THEN [m |-> m, ret |-> "true"]
    ELSE
        LET f == fs[fi + 1]
            a == AssignHalfedges(m, edges, f, 0, [i \in 1..Len(f) |-> SizeMax])
            l == LinkFace(a.m, f, fi, a.fh, 0)
            first == IF Len(f) = 0 THEN ub[fi + 1] ELSE a.fh[1]
        IN IF ~l.ok THEN [m |-> l.m, ret |-> "false"]
           ELSE IF first = Trap THEN [m |-> l.m, ret |-> "trap"]
           ELSE LoadFaces([l.m EXCEPT !.faceInfo[fi + 1].halfedge = first],
                          a.edges, fs, fi + 1, ub)

load(m, npoints, fs, ub) ==
    LET m0 == reset(m)
        m1 == [m0 EXCEPT !.vertexInfo = resize(@, npoints, VertexInfo),
                         !.faceInfo = resize(@, Len(fs), FaceInfo)]
    IN LoadFaces(m1, <<>>, fs, 0, ub)

\* Iterations granted to a traversal.  A traversal of a mesh with n
\* half-edges that has not ended after n + 1 increments has met some
\* half-edge other than its start twice, and never ends.
Fuel(m) == numHalfedges(m) + 1

\* A loop over an iterator that never reaches its end: as the value of a
\* search loop, the enclosing constructor never returns; as the last
\* element of a yielded sequence, the range-for never leaves its loop.
Diverges == -2

(***************************************************************************)
(* FaceHalfedgeIterator: the record holds the members center,              *)
(* positiveOrder, end, start and current.                                  *)
(***************************************************************************)
FaceHalfedgeIterator(m, center, positiveOrder, end, start) ==
    LET end0 == end \/ center >= numFaces(m)
        start0 == IF end0 THEN SizeMax
                  ELSE IF halfedgeAssociatedFace(m, start) = center THEN start
                  ELSE faceAssociatedHalfedge(m, center)
    IN [center |-> center, positiveOrder |-> positiveOrder,
        end |-> (end0 \/ ~valid(start0)), start |-> start0, current |-> start0]

\* FaceHalfedgeIterator::operator++
FaceHalfedgeIteratorInc(m, it) ==
    IF it.end THEN it
    ELSE LET cur == IF it.positiveOrder THEN halfedgeNextHalfedge(m, it.current)
                    ELSE halfedgePreviousHalfedge(m, it.current)
         IN [it EXCEPT !.current = cur,
                       !.end = (~valid(cur) \/ cur = it.start)]

\* for (it = range.begin(); it != range.end(); ++it): the half-edges
\* yielded by at most fuel iterations.
RECURSIVE FaceHalfedgeWalk(_, _, _)
FaceHalfedgeWalk(m, it, fuel) ==
    IF it.end THEN <<>>
    ELSE IF fuel = 0 THEN <<Diverges>>
    ELSE <<it.current>> \o FaceHalfedgeWalk(m, FaceHalfedgeIteratorInc(m, it), fuel - 1)

\* mesh.faceHalfedges(center, positiveOrder, start), as the sequence a
\* range-for yields.
faceHalfedges(m, center, positiveOrder, start) ==
    FaceHalfedgeWalk(m, FaceHalfedgeIterator(m, center, positiveOrder, FALSE, start), Fuel(m))

(***************************************************************************)
(* FaceVertexIterator: the record holds the members iterator and current;  *)
(* diverges tells that the search loop of the constructor never ends, so   *)
(* that no iterator is ever handed out.                                    *)
(***************************************************************************)

\* The search loop of the constructor: advance until the current
\* half-edge points to start; the half-edge found, or invalid.
RECURSIVE FaceVertexFind(_, _, _, _)
FaceVertexFind(m, it, start, fuel) ==
    IF it.end THEN SizeMax
    ELSE IF fuel = 0 THEN Diverges
    ELSE IF halfedgeTargetVertex(m, it.current) = start THEN it.current
    ELSE FaceVertexFind(m, FaceHalfedgeIteratorInc(m, it), start, fuel - 1)

FaceVertexIterator(m, center, positiveOrder, end, start) ==
    LET it0 == FaceHalfedgeIterator(m, center, positiveOrder, end, SizeMax)
        find == IF center < numFaces(m) /\ start < numVertices(m)
                THEN FaceVertexFind(m, it0, start, Fuel(m))
                ELSE SizeMax
        it1 == IF center < numFaces(m) /\ start < numVertices(m) /\ find # Diverges
               THEN FaceHalfedgeIterator(m, center, positiveOrder, end, find)
               ELSE it0
    IN [iterator |-> it1,
        current |-> IF center < numFaces(m)
                    THEN halfedgeTargetVertex(m, it1.current)
                    ELSE SizeMax,
        diverges |-> (find = Diverges)]

\* FaceVertexIterator::operator++
FaceVertexIteratorInc(m, it) ==
    LET it1 == FaceHalfedgeIteratorInc(m, it.iterator)
    IN [iterator |-> it1,
        current |-> halfedgeTargetVertex(m, it1.current),
        diverges |-> it.diverges]

RECURSIVE FaceVertexWalk(_, _, _)
FaceVertexWalk(m, it, fuel) ==
    IF it.diverges THEN <<Diverges>>
    ELSE IF it.iterator.end THEN <<>>
    ELSE IF fuel = 0 THEN <<Diverges>>
    ELSE <<it.current>> \o FaceVertexWalk(m, FaceVertexIteratorInc(m, it), fuel - 1)

\* mesh.faceVertices(center, positiveOrder, start), as the sequence a
\* range-for yields.
faceVertices(m, center, positiveOrder, start) ==
    FaceVertexWalk(m, FaceVertexIterator(m, center, positiveOrder, FALSE, start), Fuel(m))

(***************************************************************************)
(* VertexHalfedgeIterator: the record holds the members center, outgoing,  *)
(* clockwise, end, start and current.                                      *)
(***************************************************************************)
VertexHalfedgeIterator(m, center, outgoing, clockwise, end, start) ==
    LET end0 == end \/ center >= numVertices(m)
        start0 == IF end0 THEN SizeMax
                  ELSE IF outgoing
                       THEN (IF halfedgeSourceVertex(m, start) = center THEN start
                             ELSE vertexOutgoingHalfedge(m, center))
                       ELSE (IF halfedgeTargetVertex(m, start) = center THEN start
                             ELSE vertexIngoingHalfedge(m, center))
    IN [center |-> center, outgoing |-> outgoing, clockwise |-> clockwise,
        end |-> (end0 \/ ~valid(start0)), start |-> start0, current |-> start0]

\* The switch of VertexHalfedgeIterator::operator++ on outgoing << 1 | clockwise.
VertexHalfedgeStep(m, outgoing, clockwise, current) ==
    IF ~outgoing /\ ~clockwise
    THEN halfedgePreviousHalfedge(m, halfedgeOppositeHalfedge(m, current))
    ELSE IF ~outgoing /\ clockwise
    THEN halfedgeOppositeHalfedge(m, halfedgeNextHalfedge(m, current))
    ELSE IF outgoing /\ ~clockwise
    THEN halfedgeOppositeHalfedge(m, halfedgePreviousHalfedge(m, current))
    ELSE halfedgeNextHalfedge(m, halfedgeOppositeHalfedge(m, current))

\* VertexHalfedgeIterator::operator++
VertexHalfedgeIteratorInc(m, it) ==
    IF it.end THEN it
    ELSE LET cur == VertexHalfedgeStep(m, it.outgoing, it.clockwise, it.current)
         IN [it EXCEPT !.current = cur,
                       !.end = (~valid(cur) \/ cur = it.start)]

RECURSIVE VertexHalfedgeWalk(_, _, _)
VertexHalfedgeWalk(m, it, fuel) ==
    IF it.end THEN <<>>
    ELSE IF fuel = 0 THEN <<Diverges>>
    ELSE <<it.current>> \o VertexHalfedgeWalk(m, VertexHalfedgeIteratorInc(m, it), fuel - 1)

\* mesh.vertexHalfedges(center, outgoing, clockwise, start), as the
\* sequence a range-for yields.
vertexHalfedges(m, center, outgoing, clockwise, start) ==
    VertexHalfedgeWalk(m, VertexHalfedgeIterator(m, center, outgoing, clockwise, FALSE, start),
                       Fuel(m))

(***************************************************************************)
(* VertexVertexIterator, VertexFaceIterator, VertexEdgeIterator: each      *)
(* record holds the members iterator (a VertexHalfedgeIterator over the    *)
(* outgoing half-edges) and current, and diverges as above.                *)
(***************************************************************************)
RECURSIVE VertexVertexFind(_, _, _, _)
VertexVertexFind(m, it, start, fuel) ==
    IF it.end THEN SizeMax
    ELSE IF fuel = 0 THEN Diverges
    ELSE IF halfedgeTargetVertex(m, it.current) = start THEN it.current
    ELSE VertexVertexFind(m, VertexHalfedgeIteratorInc(m, it), start, fuel - 1)

VertexVertexIterator(m, center, clockwise, end, start) ==
    LET it0 == VertexHalfedgeIterator(m, center, TRUE, clockwise, end, SizeMax)
        find == IF center < numVertices(m) /\ start < numVertices(m)
                THEN VertexVertexFind(m, it0, start, Fuel(m))
                ELSE SizeMax
        it1 == IF center < numVertices(m) /\ start < numVertices(m) /\ find # Diverges
               THEN VertexHalfedgeIterator(m, center, TRUE, clockwise, end, find)
               ELSE it0
    IN [iterator |-> it1,
        current |-> IF center < numVertices(m)
                    THEN halfedgeTargetVertex(m, it1.current)
                    ELSE SizeMax,
        diverges |-> (find = Diverges)]

\* operator++ that advances the inner iterator and forgets to refresh the
\* element the iterator shows.
VertexVertexIteratorInc_Stale(m, it) ==
    [it EXCEPT !.iterator = VertexHalfedgeIteratorInc(m, it.iterator)]

\* VertexVertexIterator::operator++
VertexVertexIteratorInc(m, it) ==
    LET it1 == VertexHalfedgeIteratorInc(m, it.iterator)
    IN [iterator |-> it1,
        current |-> halfedgeTargetVertex(m, it1.current),
        diverges |-> it.diverges]

RECURSIVE VertexVertexWalk(_, _, _)
VertexVertexWalk(m, it, fuel) ==
    IF it.diverges THEN <<Diverges>>
    ELSE IF it.iterator.end THEN <<>>
    ELSE IF fuel = 0 THEN <<Diverges>>
    ELSE <<it.current>> \o VertexVertexWalk(m, VertexVertexIteratorInc(m, it), fuel - 1)

vertexVertices(m, center, clockwise, start) ==
    VertexVertexWalk(m, VertexVertexIterator(m, center, clockwise, FALSE, start), Fuel(m))

RECURSIVE VertexFaceFind(_, _, _, _)
VertexFaceFind(m, it, start, fuel) ==
    IF it.end THEN SizeMax
    ELSE IF fuel = 0 THEN Diverges
    ELSE IF halfedgeAssociatedFace(m, it.current) = start THEN it.current
    ELSE VertexFaceFind(m, VertexHalfedgeIteratorInc(m, it), start, fuel - 1)

VertexFaceIterator(m, center, clockwise, end, start) ==
    LET it0 == VertexHalfedgeIterator(m, center, TRUE, clockwise, end, SizeMax)
        find == IF center < numVertices(m) /\ start < numFaces(m)
                THEN VertexFaceFind(m, it0, start, Fuel(m))
                ELSE SizeMax
        it1 == IF center < numVertices(m) /\ start < numFaces(m) /\ find # Diverges
               THEN VertexHalfedgeIterator(m, center, TRUE, clockwise, end, find)
               ELSE it0
    IN [iterator |-> it1,
        current |-> IF center < numVertices(m)
                    THEN halfedgeAssociatedFace(m, it1.current)
                    ELSE SizeMax,
        diverges |-> (find = Diverges)]

\* VertexFaceIterator::operator++
VertexFaceIteratorInc(m, it) ==
    LET it1 == VertexHalfedgeIteratorInc(m, it.iterator)
    IN [iterator |-> it1,
        current |-> halfedgeAssociatedFace(m, it1.current),
        diverges |-> it.diverges]

RECURSIVE VertexFaceWalk(_, _, _)
VertexFaceWalk(m, it, fuel) ==
    IF it.diverges THEN <<Diverges>>
    ELSE IF it.iterator.end THEN <<>>
    ELSE IF fuel = 0 THEN <<Diverges>>
    ELSE <<it.current>> \o VertexFaceWalk(m, VertexFaceIteratorInc(m, it), fuel - 1)

vertexFaces(m, center, clockwise, start) ==
    VertexFaceWalk(m, VertexFaceIterator(m, center, clockwise, FALSE, start), Fuel(m))

RECURSIVE VertexEdgeFind(_, _, _, _)
VertexEdgeFind(m, it, start, fuel) ==
    IF it.end THEN SizeMax
    ELSE IF fuel = 0 THEN Diverges
    ELSE IF halfedgeAssociatedEdge(m, it.current) = start THEN it.current
    ELSE VertexEdgeFind(m, VertexHalfedgeIteratorInc(m, it), start, fuel - 1)

VertexEdgeIterator(m, center, clockwise, end, start) ==
    LET it0 == VertexHalfedgeIterator(m, center, TRUE, clockwise, end, SizeMax)
        find == IF center < numVertices(m) /\ start < numEdges(m)
                THEN VertexEdgeFind(m, it0, start, Fuel(m))
                ELSE SizeMax
        it1 == IF center < numVertices(m) /\ start < numEdges(m) /\ find # Diverges
               THEN VertexHalfedgeIterator(m, center, TRUE, clockwise, end, find)
               ELSE it0
    IN [iterator |-> it1,
        current |-> IF center < numVertices(m)
                    THEN halfedgeAssociatedEdge(m, it1.current)
                    ELSE SizeMax,
        diverges |-> (find = Diverges)]

\* VertexEdgeIterator::operator++
VertexEdgeIteratorInc(m, it) ==
    LET it1 == VertexHalfedgeIteratorInc(m, it.iterator)
    IN [iterator |-> it1,
        current |-> halfedgeAssociatedEdge(m, it1.current),
        diverges |-> it.diverges]

RECURSIVE VertexEdgeWalk(_, _, _)
VertexEdgeWalk(m, it, fuel) ==
    IF it.diverges THEN <<Diverges>>
    ELSE IF it.iterator.end THEN <<>>
    ELSE IF fuel = 0 THEN <<Diverges>>
    ELSE <<it.current>> \o VertexEdgeWalk(m, VertexEdgeIteratorInc(m, it), fuel - 1)

vertexEdges(m, center, clockwise, start) ==
    VertexEdgeWalk(m, VertexEdgeIterator(m, center, clockwise, FALSE, start), Fuel(m))

(***************************************************************************)
(* FaceFaceIterator, FaceEdgeIterator: each record holds the members       *)
(* iterator (a FaceHalfedgeIterator) and current, and diverges as above.   *)
(***************************************************************************)
RECURSIVE FaceFaceFind(_, _, _, _)
FaceFaceFind(m, it, start, fuel) ==
    IF it.end THEN SizeMax
    ELSE IF fuel = 0 THEN Diverges
    ELSE IF halfedgeAssociatedFace(m, halfedgeOppositeHalfedge(m, it.current)) = start
         THEN it.current
    ELSE FaceFaceFind(m, FaceHalfedgeIteratorInc(m, it), start, fuel - 1)

FaceFaceIterator(m, center, positiveOrder, end, start) ==
    LET it0 == FaceHalfedgeIterator(m, center, positiveOrder, end, SizeMax)
        find == IF center < numFaces(m) /\ start < numFaces(m)
                THEN FaceFaceFind(m, it0, start, Fuel(m))
                ELSE SizeMax
        it1 == IF center < numFaces(m) /\ start < numFaces(m) /\ find # Diverges
               THEN FaceHalfedgeIterator(m, center, positiveOrder, end, find)
               ELSE it0
    IN [iterator |-> it1,
        current |-> IF center < numFaces(m)
                    THEN halfedgeAssociatedFace(m, halfedgeOppositeHalfedge(m, it1.current))
                    ELSE SizeMax,
        diverges |-> (find = Diverges)]

\* FaceFaceIterator::operator++
FaceFaceIteratorInc(m, it) ==
    LET it1 == FaceHalfedgeIteratorInc(m, it.iterator)
    IN [iterator |-> it1,
        current |-> halfedgeAssociatedFace(m, halfedgeOppositeHalfedge(m, it1.current)),
        diverges |-> it.diverges]

RECURSIVE FaceFaceWalk(_, _, _)
FaceFaceWalk(m, it, fuel) ==
    IF it.diverges THEN <<Diverges>>
    ELSE IF it.iterator.end THEN <<>>
    ELSE IF fuel = 0 THEN <<Diverges>>
    ELSE <<it.current>> \o FaceFaceWalk(m, FaceFaceIteratorInc(m, it), fuel - 1)

faceFaces(m, center, positiveOrder, start) ==
    FaceFaceWalk(m, FaceFaceIterator(m, center, positiveOrder, FALSE, start), Fuel(m))

RECURSIVE FaceEdgeFind(_, _, _, _)
FaceEdgeFind(m, it, start, fuel) ==
    IF it.end THEN SizeMax
    ELSE IF fuel = 0 THEN Diverges
    ELSE IF halfedgeAssociatedEdge(m, it.current) = start THEN it.current
    ELSE FaceEdgeFind(m, FaceHalfedgeIteratorInc(m, it), start, fuel - 1)

FaceEdgeIterator(m, center, positiveOrder, end, start) ==
    LET it0 == FaceHalfedgeIterator(m, center, positiveOrder, end, SizeMax)
        find == IF center < numFaces(m) /\ start < numEdges(m)
                THEN FaceEdgeFind(m, it0, start, Fuel(m))
                ELSE SizeMax
        it1 == IF center < numFaces(m) /\ start < numEdges(m) /\ find # Diverges
               THEN FaceHalfedgeIterator(m, center, positiveOrder, end, find)
               ELSE it0
    IN [iterator |-> it1,
        current |-> IF center < numFaces(m)
                    THEN halfedgeAssociatedEdge(m, it1.current)
                    ELSE SizeMax,
        diverges |-> (find = Diverges)]

\* FaceEdgeIterator::operator++
FaceEdgeIteratorInc(m, it) ==
    LET it1 == FaceHalfedgeIteratorInc(m, it.iterator)
    IN [iterator |-> it1,
        current |-> halfedgeAssociatedEdge(m, it1.current),
        diverges |-> it.diverges]

RECURSIVE FaceEdgeWalk(_, _, _)
FaceEdgeWalk(m, it, fuel) ==
    IF it.diverges THEN <<Diverges>>
    ELSE IF it.iterator.end THEN <<>>
    ELSE IF fuel = 0 THEN <<Diverges>>
    ELSE <<it.current>> \o FaceEdgeWalk(m, FaceEdgeIteratorInc(m, it), fuel - 1)

faceEdges(m, center, positiveOrder, start) ==
    FaceEdgeWalk(m, FaceEdgeIterator(m, center, positiveOrder, FALSE, start), Fuel(m))

(***************************************************************************)
(* Inputs.                                                                 *)
(***************************************************************************)
SeqsUpTo(S, n) == UNION {[1..k -> S] : k \in 0..n}

FaceInputs(npoints, nfaces) == SeqsUpTo(SeqsUpTo(0..(npoints - 1), MaxFaceLen), nfaces)

EmptyFaces(fs) == {i \in 1..Len(fs) : Len(fs[i]) = 0}

\* The meshes of the concrete scenarios: a tetrahedron, two triangles that
\* share an edge with opposite and with equal winding.
Tetrahedron == [points |-> 4, faces |-> <<<<0, 1, 2>>, <<0, 3, 1>>, <<1, 3, 2>>, <<0, 2, 3>>>>]

TwoTriangles == [points |-> 4, faces |-> <<<<0, 1, 2>>, <<1, 0, 3>>>>]

SameWinding == [points |-> 4, faces |-> <<<<0, 1, 2>>, <<0, 1, 3>>>>]

Scenarios == {Tetrahedron, TwoTriangles, SameWinding}

(***************************************************************************)
(* Readers.  A reader runs                                                 *)
(*     for (auto x : range) yielded.push_back(x);                          *)
(* over one range of the instance; the record holds the range, the         *)
(* iterator of the loop, and the elements yielded so far.                  *)
(***************************************************************************)
Readers == 1..NumReaders

Idle == [kind |-> "idle"]

\* The ranges a reader may traverse, each with its default start.
ReaderRanges(m) ==
    {[kind |-> "vertexHalfedges", center |-> v, flag |-> o, dir |-> c] :
        v \in 0..(numVertices(m) - 1), o \in BOOLEAN, c \in BOOLEAN}
    \cup {[kind |-> k, center |-> f, flag |-> TRUE, dir |-> c] :
        k \in {"faceHalfedges", "faceVertices"}, f \in 0..(numFaces(m) - 1), c \in BOOLEAN}

\* range.begin()
RangeBegin(m, rg) ==
    IF rg.kind = "vertexHalfedges"
    THEN VertexHalfedgeIterator(m, rg.center, rg.flag, rg.dir, FALSE, SizeMax)
    ELSE IF rg.kind = "faceHalfedges"
    THEN FaceHalfedgeIterator(m, rg.center, rg.dir, FALSE, SizeMax)
    ELSE FaceVertexIterator(m, rg.center, rg.dir, FALSE, SizeMax)

\* it != range.end()
RangeMore(rg, it) == IF rg.kind = "faceVertices" THEN ~it.iterator.end ELSE ~it.end

\* ++it
RangeInc(m, rg, it) ==
    IF rg.kind = "vertexHalfedges" THEN VertexHalfedgeIteratorInc(m, it)
    ELSE IF rg.kind = "faceHalfedges" THEN FaceHalfedgeIteratorInc(m, it)
    ELSE FaceVertexIteratorInc(m, it)

\* The whole sequence of the range, as one reader alone gets it.
RangeAlone(m, rg) ==
    IF rg.kind = "vertexHalfedges"
    THEN vertexHalfedges(m, rg.center, rg.flag, rg.dir, SizeMax)
    ELSE IF rg.kind = "faceHalfedges" THEN faceHalfedges(m, rg.center, rg.dir, SizeMax)
    ELSE faceVertices(m, rg.center, rg.dir, SizeMax)

\* What a const member function does to the mesh it is called on, with the
\* const dropped: a read that clears the half-edge array.
ReadEffect_Clears(m) == [m EXCEPT !.halfedgeInfo = <<>>]

\* What a const member function does to the mesh it is called on: every
\* query and every iterator operation goes through a const HalfedgeMesh.
ReadEffect(m) == m

\* The mesh after a reader's operation.
AfterRead ==
    LET m == ReadEffect(this)
    IN /\ vertexInfo' = m.vertexInfo
       /\ halfedgeInfo' = m.halfedgeInfo
       /\ faceInfo' = m.faceInfo
       /\ UNCHANGED <<points, faces, ret, loads, supplied, handle>>

(***************************************************************************)
(* The state machine.                                                      *)
(***************************************************************************)
Init ==
    /\ vertexInfo = <<>>
    /\ halfedgeInfo = <<>>
    /\ faceInfo = <<>>
    /\ points = 0
    /\ faces = <<>>
    /\ ret = "none"
    /\ loads = 0
    /\ supplied = 0
    /\ readers = [r \in Readers |-> Idle]
    /\ handle = [type |-> "VertexIndex", idx |-> IndexBase, by |-> "default", ops |-> 0]

\* One call of load(points, faces) on the instance, made while no reader
\* is inside a range-for.
Call(npoints, fs, ub) ==
    /\ ret # "trap"
    /\ loads < MaxLoads
    /\ \A r \in Readers : readers[r] = Idle
    /\ UNCHANGED <<readers, handle>>
    /\ LET r == load(this, npoints, fs, ub)
       IN /\ vertexInfo' = r.m.vertexInfo
          /\ halfedgeInfo' = r.m.halfedgeInfo
          /\ faceInfo' = r.m.faceInfo
          /\ ret' = r.ret
    /\ points' = npoints
    /\ faces' = fs
    /\ loads' = loads + 1

Load ==
    \E npoints \in 0..MaxPoints :
      \E fs \in FaceInputs(npoints, MaxFaces - supplied) :
        \E ub \in [EmptyFaces(fs) -> Indeterminate] :
          /\ Call(npoints, fs, ub)
          /\ supplied' = supplied + Len(fs)

LoadScenario ==
    \E s \in Scenarios :
        /\ Call(s.points, s.faces, <<>>)
        /\ UNCHANGED supplied

Next == Load \/ LoadScenario

Spec == Init /\ [][Next]_vars

\* A reader enters a range-for over a range of the loaded mesh.
ReaderBegin(r) ==
    /\ ret = "true"
    /\ readers[r] = Idle
    /\ \E rg \in ReaderRanges(this) :
         readers' = [readers EXCEPT ![r] =
                        [kind |-> "reading", range |-> rg, it |-> RangeBegin(this, rg),
                         yielded |-> <<>>, alone |-> RangeAlone(this, rg)]]
    /\ AfterRead

\* One iteration of the range-for: the loop test, *it, ++it.
ReaderStep(r) ==
    /\ readers[r] # Idle
    /\ RangeMore(readers[r].range, readers[r].it)
    /\ Len(readers[r].yielded) < Fuel(this)
    /\ readers' = [readers EXCEPT
                     ![r].yielded = Append(@, readers[r].it.current),
                     ![r].it = RangeInc(this, readers[r].range, @)]
    /\ AfterRead

\* The loop test fails: the reader leaves its range-for.
ReaderEnd(r) ==
    /\ readers[r] # Idle
    /\ ~RangeMore(readers[r].range, readers[r].it)
    /\ readers' = [readers EXCEPT ![r] = Idle]
    /\ AfterRead

Read == \E r \in Readers : ReaderBegin(r) \/ ReaderStep(r) \/ ReaderEnd(r)

\* The integers handles are constructed from.
HandleInputs == {0, 1, 2, SizeMax - 1, SizeMax}

\* The handle after one more operation.
Applied(op, i) ==
    handle' = [handle EXCEPT !.idx = i, !.by = op, !.ops = @ + 1]

\* XIndex h; or XIndex h(i);
HandleConstruct ==
    /\ \E t \in IndexTypes :
         \/ handle' = [type |-> t, idx |-> IndexBase, by |-> "default", ops |-> 0]
         \/ \E i \in HandleInputs :
              handle' = [type |-> t, idx |-> i, by |-> "explicit", ops |-> 0]
    /\ UNCHANGED <<vertexInfo, halfedgeInfo, faceInfo, points, faces, ret, loads,
                   supplied, readers>>

\* One operation on the handle: reset(), ++, --, += n, -= n.
HandleOp ==
    /\ handle.ops < MaxOps
    /\ \/ Applied("reset", IndexReset(handle.idx))
       \/ Applied("++", IndexInc(handle.idx))
       \/ Applied("--", IndexDec(handle.idx))
       \/ \E n \in (0 - MaxStep)..MaxStep : Applied("+=", IndexPlus(handle.idx, n))
       \/ \E n \in (0 - MaxStep)..MaxStep : Applied("-=", IndexMinus(handle.idx, n))
    /\ UNCHANGED <<vertexInfo, halfedgeInfo, faceInfo, points, faces, ret, loads,
                   supplied, readers>>

\* Handles alone: construction and arithmetic.
NextIndex == HandleConstruct \/ HandleOp

SpecIndex == Init /\ [][NextIndex]_vars

\* Scenario meshes with readers on them.
NextReaders == LoadScenario \/ Read

SpecReaders == Init /\ [][NextReaders]_vars

(***************************************************************************)
(* Vocabulary of the properties.                                           *)
(***************************************************************************)
Vertices == 0..(numVertices(this) - 1)

Halfedges == 0..(numHalfedges(this) - 1)

Faces == 0..(numFaces(this) - 1)

Edges == 0..(numEdges(this) - 1)

\* The boundary steps of an input: <<fi, hi>> is step hi of face fi.
Steps(fs) ==
    UNION {{<<fi, hi>> : hi \in 0..(Len(fs[fi + 1]) - 1)} : fi \in 0..(Len(fs) - 1)}

StepPair(fs, p) == <<StepV1(fs[p[1] + 1], p[2]), StepV2(fs[p[1] + 1], p[2])>>

HasRepeatedStep(fs) ==
    \E p, q \in Steps(fs) : p # q /\ StepPair(fs, p) = StepPair(fs, q)

UnorderedPairs(fs) == {{StepPair(fs, p)[1], StepPair(fs, p)[2]} : p \in Steps(fs)}

\* The last load() call was the first one made on the instance.
Fresh == loads = 1

\* halfedgeNextHalfedge applied k times.
RECURSIVE NextTimes(_, _)
NextTimes(h, k) == IF k = 0 THEN h ELSE halfedgeNextHalfedge(this, NextTimes(h, k - 1))

\* Face f is a loop of exactly n half-edges, all of them carrying f.
FaceLoopClosed(f, n) ==
    LET h0 == faceAssociatedHalfedge(this, f)
    IN /\ halfedgeAssociatedFace(this, h0) = f
       /\ NextTimes(h0, n) = h0
       /\ \A k \in 1..(n - 1) : NextTimes(h0, k) # h0
       /\ \A k \in 0..n : halfedgeAssociatedFace(this, NextTimes(h0, k)) = f

SourceTarget(h) == <<halfedgeSourceVertex(this, h), halfedgeTargetVertex(this, h)>>

Endpoints(e) ==
    LET h == edgeAssociatedHalfedge(this, e, TRUE)
    IN {halfedgeSourceVertex(this, h), halfedgeTargetVertex(this, h)}

\* f0, f(n-1), ..., f1
Reversed(f) == [i \in 1..Len(f) |-> f[((Len(f) - (i - 1)) % Len(f)) + 1]]

(***************************************************************************)
(* C1: after load() returns false the mesh is empty: numVertices(),        *)
(* numHalfedges() and numFaces() are all 0.                                *)
(***************************************************************************)
C1_FailedLoadLeavesEmptyMesh ==
    ret = "false" =>
        /\ numVertices(this) = 0
        /\ numHalfedges(this) = 0
        /\ numFaces(this) = 0

(***************************************************************************)
(* C2: on a fresh mesh load() returns false exactly when some directed     *)
(* vertex pair occurs more than once among the boundary steps of all       *)
(* faces, and returns true in every other case.                            *)
(***************************************************************************)
C2_FailsIffRepeatedStep ==
    (Fresh /\ ret # "none") =>
        /\ (ret = "false") <=> HasRepeatedStep(faces)
        /\ ~HasRepeatedStep(faces) => ret = "true"

\* The part of C2 that the code keeps: whenever the call returns at all,
\* it returns false exactly for a repeated directed step.
C2_ReturnedValue ==
    (Fresh /\ ret \in {"true", "false"}) =>
        ((ret = "false") <=> HasRepeatedStep(faces))

(***************************************************************************)
(* C3: after a successful load on a fresh mesh numVertices() is the number *)
(* of points, numFaces() the number of faces, numEdges() the number of     *)
(* distinct unordered vertex pairs among the boundary steps, and           *)
(* numHalfedges() twice numEdges(); 3/6/1/3 for a single triangle and      *)
(* 4/12/4/6 for the tetrahedron.                                           *)
(***************************************************************************)
C3_CountsAfterFreshLoad ==
    (Fresh /\ ret = "true") =>
        /\ numVertices(this) = points
        /\ numFaces(this) = Len(faces)
        /\ numEdges(this) = Cardinality(UnorderedPairs(faces))
        /\ numHalfedges(this) = 2 * numEdges(this)
        /\ (points = 3 /\ faces = <<<<0, 1, 2>>>>) =>
              <<numVertices(this), numHalfedges(this), numFaces(this), numEdges(this)>>
                  = <<3, 6, 1, 3>>
        /\ (points = Tetrahedron.points /\ faces = Tetrahedron.faces) =>
              <<numVertices(this), numHalfedges(this), numFaces(this), numEdges(this)>>
                  = <<4, 12, 4, 6>>

C3_Witness ==
    /\ Fresh /\ ret = "true"
    /\ faces = Tetrahedron.faces
    /\ numHalfedges(this) = 12

C5_NextPrevInverse ==
    ret = "true" =>
        \A h \in Halfedges :
            valid(halfedgeAssociatedFace(this, h)) =>
                /\ halfedgeNextHalfedge(this, halfedgePreviousHalfedge(this, h)) = h
                /\ halfedgePreviousHalfedge(this, halfedgeNextHalfedge(this, h)) = h

(***************************************************************************)
(* C6: in every state numHalfedges() is even and, for every half-edge h in *)
(* range, halfedgeOppositeHalfedge(h) is in range, differs from h, has the *)
(* same edge as h, and its own opposite is h.                              *)
(***************************************************************************)
C6_OppositeInvolution ==
    /\ numHalfedges(this) % 2 = 0
    /\ \A h \in Halfedges :
         LET o == halfedgeOppositeHalfedge(this, h)
         IN /\ o \in Halfedges
            /\ o # h
            /\ halfedgeAssociatedEdge(this, o) = halfedgeAssociatedEdge(this, h)
            /\ halfedgeOppositeHalfedge(this, o) = h

C6_Witness ==
    /\ ret = "false"
    /\ numHalfedges(this) >= 4

(***************************************************************************)
(* C7: for every edge e in range and both direction flags d,               *)
(* halfedgeAssociatedEdge(edgeAssociatedHalfedge(e, d)) = e, and the two   *)
(* half-edges of e are each other's opposite.                              *)
(***************************************************************************)
C7_EdgeParity ==
    \A e \in Edges :
        /\ \A d \in BOOLEAN :
             halfedgeAssociatedEdge(this, edgeAssociatedHalfedge(this, e, d)) = e
        /\ halfedgeOppositeHalfedge(this, edgeAssociatedHalfedge(this, e, TRUE))
             = edgeAssociatedHalfedge(this, e, FALSE)
        /\ halfedgeOppositeHalfedge(this, edgeAssociatedHalfedge(this, e, FALSE))
             = edgeAssociatedHalfedge(this, e, TRUE)

C7_Witness ==
    /\ ret = "true"
    /\ numEdges(this) >= 3

(***************************************************************************)
(* C8: after a successful load every half-edge h has                       *)
(* source(h) = target(opposite(h)) with source and target both valid, the  *)
(* half-edge of boundary step (a -> b) of a face has source a and target   *)
(* b, and source(next(h)) = target(h) for every h with a valid face.       *)
(***************************************************************************)
C8_SourceAndTarget ==
    ret = "true" =>
        /\ \A h \in Halfedges :
             /\ halfedgeSourceVertex(this, h)
                  = halfedgeTargetVertex(this, halfedgeOppositeHalfedge(this, h))
             /\ valid(halfedgeSourceVertex(this, h))
             /\ valid(halfedgeTargetVertex(this, h))
        /\ \A p \in Steps(faces) :
             SourceTarget(NextTimes(faceAssociatedHalfedge(this, p[1]), p[2]))
                 = StepPair(faces, p)
        /\ \A h \in Halfedges :
             valid(halfedgeAssociatedFace(this, h)) =>
                 halfedgeSourceVertex(this, halfedgeNextHalfedge(this, h))
                     = halfedgeTargetVertex(this, h)

(***************************************************************************)
(* C9: after any successful load no two distinct half-edges have the same  *)
(* ordered pair (source, target), and no two distinct edges join the same  *)
(* unordered vertex pair.                                                  *)
(***************************************************************************)
C9_NoDuplicateHalfedgeOrEdge ==
    ret = "true" =>
        /\ \A h1, h2 \in Halfedges : h1 # h2 => SourceTarget(h1) # SourceTarget(h2)
        /\ \A e1, e2 \in Edges : e1 # e2 => Endpoints(e1) # Endpoints(e2)

(***************************************************************************)
(* C10: after a successful load faceVertices(f) with the default start     *)
(* yields the input list f0, f1, ..., f(n-1) of face f for positiveOrder   *)
(* true, and f0, f(n-1), ..., f1 for positiveOrder false.                  *)
(***************************************************************************)
C10_FaceVerticesInInputOrder ==
    ret = "true" =>
        \A f \in Faces :
            /\ faceVertices(this, f, TRUE, SizeMax) = faces[f + 1]
            /\ faceVertices(this, f, FALSE, SizeMax) = Reversed(faces[f + 1])

(***************************************************************************)
(* Vocabulary of the vertex-centered properties.                           *)
(***************************************************************************)
Range(s) == {s[i] : i \in 1..Len(s)}

OutgoingHalfedges(v) == {h \in Halfedges : halfedgeSourceVertex(this, h) = v}

IngoingHalfedges(v) == {h \in Halfedges : halfedgeTargetVertex(this, h) = v}

\* The faces of the last load() call that list vertex v.
IncidentFaces(v) == {f \in 0..(Len(faces) - 1) : v \in Range(faces[f + 1])}

\* The face handles around v, and when two of them meet in an edge at v.
FanFaces(v) ==
    {halfedgeAssociatedFace(this, h) : h \in OutgoingHalfedges(v) \cup IngoingHalfedges(v)}

FanAdjacent(v, f, g) ==
    \E h \in OutgoingHalfedges(v) \cup IngoingHalfedges(v) :
        /\ halfedgeAssociatedFace(this, h) = f
        /\ halfedgeAssociatedFace(this, halfedgeOppositeHalfedge(this, h)) = g

RECURSIVE FanReach(_, _, _)
FanReach(v, S, k) ==
    IF k = 0 THEN S
    ELSE FanReach(v, S \cup {g \in FanFaces(v) : \E f \in S : FanAdjacent(v, f, g)}, k - 1)

\* The faces around v hang together through the edges at v.
OneFan(v) ==
    \A f \in FanFaces(v) : FanReach(v, {f}, Cardinality(FanFaces(v))) = FanFaces(v)

\* v is used, its faces form one fan, and every half-edge at v has a face.
ClosedFan(v) ==
    /\ OutgoingHalfedges(v) # {}
    /\ OneFan(v)
    /\ \A h \in OutgoingHalfedges(v) \cup IngoingHalfedges(v) :
           valid(halfedgeAssociatedFace(this, h))

\* Sequence s lists every element of S, each exactly once.
YieldsEachOnce(s, S) == Len(s) = Cardinality(S) /\ Range(s) = S

ClosedFanTraversal(v) ==
    \A cw \in BOOLEAN :
        /\ YieldsEachOnce(vertexHalfedges(this, v, TRUE, cw, SizeMax), OutgoingHalfedges(v))
        /\ YieldsEachOnce(vertexHalfedges(this, v, FALSE, cw, SizeMax), IngoingHalfedges(v))
        /\ Len(vertexFaces(this, v, cw, SizeMax)) = Cardinality(IncidentFaces(v))
        /\ Len(vertexVertices(this, v, cw, SizeMax)) = Cardinality(IncidentFaces(v))
        /\ Len(vertexEdges(this, v, cw, SizeMax)) = Cardinality(IncidentFaces(v))
        /\ (points = Tetrahedron.points /\ faces = Tetrahedron.faces) =>
               Len(vertexFaces(this, v, cw, SizeMax)) = 3

(***************************************************************************)
(* C11: after a successful load, for every vertex v whose incident faces   *)
(* form one closed fan, vertexHalfedges(v, outgoing, clockwise) yields     *)
(* each outgoing (resp. ingoing) half-edge of v exactly once for all four  *)
(* flag combinations, and vertexFaces(v), vertexVertices(v) and            *)
(* vertexEdges(v) each have as many elements as v has incident faces (3    *)
(* for every vertex of the tetrahedron).                                   *)
(***************************************************************************)
C11_ClosedFanYieldsEachOnce ==
    ret = "true" => \A v \in Vertices : ClosedFan(v) => ClosedFanTraversal(v)

\* No face of the input lists a vertex twice.
SimpleFaces(fs) == \A i \in 1..Len(fs) : Cardinality(Range(fs[i])) = Len(fs[i])

\* The part of C11 that the code keeps: the same, after a load on a
\* freshly constructed instance of faces that list no vertex twice.
C11_FreshClosedFan ==
    (Fresh /\ ret = "true" /\ SimpleFaces(faces)) =>
        \A v \in Vertices : ClosedFan(v) => ClosedFanTraversal(v)

\* The faces of an input that have at least three vertices.
LongFaces(fs) == SelectSeq(fs, LAMBDA f : Len(f) >= 3)

(***************************************************************************)
(* C12: a face with fewer than 3 vertices is skipped by load(): it         *)
(* allocates no half-edge pair, sets no next/prev/target/face field and no *)
(* vertex outgoing handle, causes no out-of-range array access, and does   *)
(* not by itself make load fail.                                           *)
(***************************************************************************)
C12_ShortFacesSkipped ==
    (Fresh /\ ret # "none") =>
        /\ ret # "trap"
        /\ ret = "true" => numEdges(this) = Cardinality(UnorderedPairs(LongFaces(faces)))
        /\ \A h \in Halfedges :
             valid(halfedgeAssociatedFace(this, h)) =>
                 Len(faces[halfedgeAssociatedFace(this, h) + 1]) >= 3
        /\ \A v \in Vertices :
             valid(vertexOutgoingHalfedge(this, v)) =>
                 \E i \in 1..Len(faces) : Len(faces[i]) >= 3 /\ v \in Range(faces[i])
        /\ ret = "false" => HasRepeatedStep(LongFaces(faces))

(***************************************************************************)
(* Handles that name no element of an array of n elements, and every       *)
(* handle a caller may pass where one of n elements is expected.           *)
(***************************************************************************)
OutOfRange(n) == {n, n + 1, SizeMax - 1, SizeMax}

AnyHandle(n) == (0..(n - 1)) \cup OutOfRange(n)

(***************************************************************************)
(* C13: in every mesh state each read query, given the sentinel or an      *)
(* index >= the element count, returns the invalid handle, and every       *)
(* vertex-centered or face-centered range whose center is invalid or out   *)
(* of range is empty.                                                      *)
(***************************************************************************)
C13_OutOfRangeIsInvalid ==
    /\ \A v \in OutOfRange(numVertices(this)) :
         /\ vertexOutgoingHalfedge(this, v) = SizeMax
         /\ vertexIngoingHalfedge(this, v) = SizeMax
    /\ \A h \in OutOfRange(numHalfedges(this)) :
         /\ halfedgeSourceVertex(this, h) = SizeMax
         /\ halfedgeTargetVertex(this, h) = SizeMax
         /\ halfedgeOppositeHalfedge(this, h) = SizeMax
         /\ halfedgeNextHalfedge(this, h) = SizeMax
         /\ halfedgePreviousHalfedge(this, h) = SizeMax
         /\ halfedgeAssociatedFace(this, h) = SizeMax
         /\ halfedgeAssociatedEdge(this, h) = SizeMax
    /\ \A f \in OutOfRange(numFaces(this)) : faceAssociatedHalfedge(this, f) = SizeMax
    /\ \A e \in OutOfRange(numEdges(this)) : \A d \in BOOLEAN :
         edgeAssociatedHalfedge(this, e, d) = SizeMax
    /\ \A v \in OutOfRange(numVertices(this)) : \A cw \in BOOLEAN :
         /\ \A out \in BOOLEAN : \A s \in AnyHandle(numHalfedges(this)) :
              vertexHalfedges(this, v, out, cw, s) = <<>>
         /\ \A s \in AnyHandle(numVertices(this)) : vertexVertices(this, v, cw, s) = <<>>
         /\ \A s \in AnyHandle(numFaces(this)) : vertexFaces(this, v, cw, s) = <<>>
         /\ \A s \in AnyHandle(numEdges(this)) : vertexEdges(this, v, cw, s) = <<>>
    /\ \A f \in OutOfRange(numFaces(this)) : \A order \in BOOLEAN :
         /\ \A s \in AnyHandle(numHalfedges(this)) : faceHalfedges(this, f, order, s) = <<>>
         /\ \A s \in AnyHandle(numVertices(this)) : faceVertices(this, f, order, s) = <<>>
         /\ \A s \in AnyHandle(numFaces(this)) : faceFaces(this, f, order, s) = <<>>
         /\ \A s \in AnyHandle(numEdges(this)) : faceEdges(this, f, order, s) = <<>>

\* A mesh with elements of every kind, asked about the first handle past
\* each array.
C13_Witness ==
    /\ numVertices(this) >= 3 /\ numFaces(this) >= 2 /\ numHalfedges(this) >= 6
    /\ halfedgeNextHalfedge(this, numHalfedges(this)) = SizeMax
    /\ vertexFaces(this, numVertices(this), TRUE, 0) = <<>>
    /\ faceVertices(this, numFaces(this), TRUE, 0) = <<>>

\* Vertex v is listed by no face of the last load() call.
Isolated(v) == IncidentFaces(v) = {}

NothingAround(v) ==
    /\ ~valid(vertexOutgoingHalfedge(this, v))
    /\ \A cw \in BOOLEAN :
         /\ \A out \in BOOLEAN : \A s \in AnyHandle(numHalfedges(this)) :
              vertexHalfedges(this, v, out, cw, s) = <<>>
         /\ \A s \in AnyHandle(numVertices(this)) : vertexVertices(this, v, cw, s) = <<>>
         /\ \A s \in AnyHandle(numFaces(this)) : vertexFaces(this, v, cw, s) = <<>>
         /\ \A s \in AnyHandle(numEdges(this)) : vertexEdges(this, v, cw, s) = <<>>

(***************************************************************************)
(* C14: after a successful load a vertex that occurs in no face has an     *)
(* invalid vertexOutgoingHalfedge, and vertexHalfedges (outgoing and       *)
(* ingoing), vertexVertices, vertexFaces and vertexEdges around it are     *)
(* empty for both rotation directions and any supplied start.              *)
(***************************************************************************)
C14_IsolatedVertexHasNothing ==
    ret = "true" => \A v \in Vertices : Isolated(v) => NothingAround(v)

\* The part of C14 that the code keeps: the same, after a load on a
\* freshly constructed instance.
C14_FreshIsolatedVertex ==
    (Fresh /\ ret = "true") => \A v \in Vertices : Isolated(v) => NothingAround(v)

\* Faces f and g of the last load() call have boundary steps, not one and
\* the same step, that join the same two vertices.
SharesEdge(f, g) ==
    \E p, q \in Steps(faces) :
        /\ p[1] = f /\ q[1] = g /\ p # q
        /\ {StepPair(faces, p)[1], StepPair(faces, p)[2]}
             = {StepPair(faces, q)[1], StepPair(faces, q)[2]}

(***************************************************************************)
(* C15: for a face f of a successfully loaded mesh faceFaces(f) yields     *)
(* only valid face handles, namely faces that share an edge with f; for a  *)
(* face that shares no edge with any other face faceFaces(f) is empty.     *)
(***************************************************************************)
C15_FaceFacesYieldsNeighbours ==
    ret = "true" =>
        \A f \in Faces : \A order \in BOOLEAN :
            LET s == faceFaces(this, f, order, SizeMax)
            IN /\ \A i \in 1..Len(s) : valid(s[i]) /\ s[i] \in Faces /\ SharesEdge(f, s[i])
               /\ (\A g \in Faces : g # f => ~SharesEdge(f, g)) => s = <<>>

\* The half-edges that carry face f.
FaceSides(f) == {h \in Halfedges : halfedgeAssociatedFace(this, h) = f}

\* A supplied start that is not incident to the center falls back to the
\* default start, range by range.
FallbackOfHalfedgeRanges ==
    /\ \A v \in AnyHandle(numVertices(this)) : \A cw \in BOOLEAN :
         \A s \in AnyHandle(numHalfedges(this)) :
           /\ halfedgeSourceVertex(this, s) # v =>
                vertexHalfedges(this, v, TRUE, cw, s) = vertexHalfedges(this, v, TRUE, cw, SizeMax)
           /\ halfedgeTargetVertex(this, s) # v =>
                vertexHalfedges(this, v, FALSE, cw, s) = vertexHalfedges(this, v, FALSE, cw, SizeMax)
    /\ \A f \in AnyHandle(numFaces(this)) : \A order \in BOOLEAN :
         \A s \in AnyHandle(numHalfedges(this)) :
           halfedgeAssociatedFace(this, s) # f =>
               faceHalfedges(this, f, order, s) = faceHalfedges(this, f, order, SizeMax)

FallbackOfVertexRanges ==
    \A v \in AnyHandle(numVertices(this)) : \A cw \in BOOLEAN :
        /\ \A s \in AnyHandle(numVertices(this)) :
             (\A h \in OutgoingHalfedges(v) : halfedgeTargetVertex(this, h) # s) =>
                 vertexVertices(this, v, cw, s) = vertexVertices(this, v, cw, SizeMax)
        /\ \A s \in AnyHandle(numFaces(this)) :
             (\A h \in OutgoingHalfedges(v) : halfedgeAssociatedFace(this, h) # s) =>
                 vertexFaces(this, v, cw, s) = vertexFaces(this, v, cw, SizeMax)
        /\ \A s \in AnyHandle(numEdges(this)) :
             (\A h \in OutgoingHalfedges(v) : halfedgeAssociatedEdge(this, h) # s) =>
                 vertexEdges(this, v, cw, s) = vertexEdges(this, v, cw, SizeMax)

FallbackOfFaceRanges ==
    \A f \in AnyHandle(numFaces(this)) : \A order \in BOOLEAN :
        /\ \A s \in AnyHandle(numVertices(this)) :
             (\A h \in FaceSides(f) : halfedgeTargetVertex(this, h) # s) =>
                 faceVertices(this, f, order, s) = faceVertices(this, f, order, SizeMax)
        /\ \A s \in AnyHandle(numFaces(this)) :
             (\A h \in FaceSides(f) :
                 halfedgeAssociatedFace(this, halfedgeOppositeHalfedge(this, h)) # s) =>
                 faceFaces(this, f, order, s) = faceFaces(this, f, order, SizeMax)
        /\ \A s \in AnyHandle(numEdges(this)) :
             (\A h \in FaceSides(f) : halfedgeAssociatedEdge(this, h) # s) =>
                 faceEdges(this, f, order, s) = faceEdges(this, f, order, SizeMax)

(***************************************************************************)
(* C16: when the start supplied to a range is not incident to its center   *)
(* (or is invalid) the range is the one obtained with the default start:   *)
(* for vertexHalfedges and faceHalfedges, and likewise for the six derived *)
(* ranges.                                                                 *)
(***************************************************************************)
C16_ForeignStartFallsBack ==
    /\ FallbackOfHalfedgeRanges
    /\ FallbackOfVertexRanges
    /\ FallbackOfFaceRanges

\* The part of C16 that the code keeps: the same, on a freshly constructed
\* instance and after a first load that succeeded.
C16_FreshForeignStart ==
    (loads = 0 \/ (Fresh /\ ret = "true")) => C16_ForeignStartFallsBack

\* Sequence q is not empty and begins with s.
YieldsFirst(q, s) == Len(q) >= 1 /\ q[1] = s

StartsAtIncidentHalfedge(c) ==
    \A cw \in BOOLEAN : \A s \in OutgoingHalfedges(c) :
        YieldsFirst(vertexHalfedges(this, c, TRUE, cw, s), s)

StartsAtIncidentElement(c) ==
    \A cw \in BOOLEAN :
        /\ \A s \in Vertices :
             (\E h \in OutgoingHalfedges(c) : halfedgeTargetVertex(this, h) = s) =>
                 YieldsFirst(vertexVertices(this, c, cw, s), s)
        /\ \A s \in Faces :
             c \in Range(faces[s + 1]) => YieldsFirst(vertexFaces(this, c, cw, s), s)
        /\ \A s \in Edges :
             c \in Endpoints(s) => YieldsFirst(vertexEdges(this, c, cw, s), s)

(***************************************************************************)
(* C17: after a successful load, for every vertex c and every element s    *)
(* incident to c (a half-edge with source c, a vertex joined to c by an    *)
(* edge, a face containing c, an edge with endpoint c) the range           *)
(* vertexHalfedges(c, true, cw, s), vertexVertices(c, cw, s),              *)
(* vertexFaces(c, cw, s), vertexEdges(c, cw, s) yields s first, for both   *)
(* values of cw.                                                           *)
(***************************************************************************)
C17_IncidentStartComesFirst ==
    ret = "true" =>
        \A c \in Vertices : StartsAtIncidentHalfedge(c) /\ StartsAtIncidentElement(c)

\* The parts of C17 that the code keeps: the half-edge range starts at any
\* half-edge that leaves c, and around a closed fan of a first load the
\* three derived ranges start at any incident element.
C17_HalfedgeStartComesFirst ==
    \A c \in Vertices : StartsAtIncidentHalfedge(c)

C17_ClosedFanStartComesFirst ==
    (Fresh /\ ret = "true") =>
        \A c \in Vertices : ClosedFan(c) => StartsAtIncidentElement(c)

\* Sequence q is sequence d read cyclically from some position on.
IsRotation(q, d) ==
    /\ Len(q) = Len(d)
    /\ Len(d) > 0 => \E k \in 0..(Len(d) - 1) :
                        \A i \in 1..Len(d) : q[i] = d[((i - 1 + k) % Len(d)) + 1]

\* Range q, begun at s: s comes first, there are n elements, and they are
\* the default-start range d read from another position.
StartsAt(q, s, n, d) == YieldsFirst(q, s) /\ Len(q) = n /\ IsRotation(q, d)

FaceRangesStartAt(f) ==
    LET n == Len(faces[f + 1])
    IN \A order \in BOOLEAN :
        /\ \A s \in FaceSides(f) :
             StartsAt(faceHalfedges(this, f, order, s), s, n,
                      faceHalfedges(this, f, order, SizeMax))
        /\ \A s \in Range(faces[f + 1]) :
             StartsAt(faceVertices(this, f, order, s), s, n,
                      faceVertices(this, f, order, SizeMax))
        /\ \A s \in {halfedgeAssociatedEdge(this, h) : h \in FaceSides(f)} :
             StartsAt(faceEdges(this, f, order, s), s, n,
                      faceEdges(this, f, order, SizeMax))

(***************************************************************************)
(* C18: after a successful load, for every face f with n sides and every   *)
(* start s on f (a half-edge with face f, a vertex of f, an edge of f),    *)
(* faceHalfedges(f, order, s), faceVertices(f, order, s) and               *)
(* faceEdges(f, order, s) yield s first and exactly n elements, a cyclic   *)
(* rotation of the default-start sequence.                                 *)
(***************************************************************************)
C18_FaceStartComesFirst ==
    ret = "true" => \A f \in Faces : FaceRangesStartAt(f)

\* The part of C18 that the code keeps: the same, after a load on a
\* freshly constructed instance.
C18_FreshFaceStart ==
    (Fresh /\ ret = "true") => \A f \in Faces : FaceRangesStartAt(f)

\* Range q ends, after at most numHalfedges() increments and without
\* yielding a half-edge twice.
EndsInTime(q) ==
    /\ Diverges \notin Range(q)
    /\ Len(q) <= numHalfedges(this)
    /\ Cardinality(Range(q)) = Len(q)

\* The rotation about a vertex goes on exactly while the step yields a
\* valid half-edge other than the first one.
VertexRotationStops(q, out, cw) ==
    \A i \in 1..Len(q) :
        LET nxt == VertexHalfedgeStep(this, out, cw, q[i])
        IN IF i < Len(q) THEN nxt = q[i + 1] /\ valid(nxt) /\ nxt # q[1]
           ELSE ~valid(nxt) \/ nxt = q[1]

FaceWalkStops(q, order) ==
    \A i \in 1..Len(q) :
        LET nxt == IF order THEN halfedgeNextHalfedge(this, q[i])
                   ELSE halfedgePreviousHalfedge(this, q[i])
        IN IF i < Len(q) THEN nxt = q[i + 1] /\ valid(nxt) /\ nxt # q[1]
           ELSE ~valid(nxt) \/ nxt = q[1]

TraversalsEnd ==
    /\ \A v \in AnyHandle(numVertices(this)) : \A out, cw \in BOOLEAN :
         \A s \in AnyHandle(numHalfedges(this)) :
           LET q == vertexHalfedges(this, v, out, cw, s)
           IN EndsInTime(q) /\ VertexRotationStops(q, out, cw)
    /\ \A f \in AnyHandle(numFaces(this)) : \A order \in BOOLEAN :
         \A s \in AnyHandle(numHalfedges(this)) :
           LET q == faceHalfedges(this, f, order, s)
           IN EndsInTime(q) /\ FaceWalkStops(q, order)

(***************************************************************************)
(* C19: on any successfully loaded mesh, for every center, every flag      *)
(* combination and every start, incrementing the begin() iterator of a     *)
(* vertexHalfedges or faceHalfedges range reaches end() after at most      *)
(* numHalfedges() increments, stopping exactly when the step returns to    *)
(* the starting half-edge or yields an invalid half-edge, and no half-edge *)
(* is yielded twice.                                                       *)
(***************************************************************************)
C19_HalfedgeRangesEnd ==
    ret = "true" => TraversalsEnd

\* The part of C19 that the code keeps: the same, after a load on a
\* freshly constructed instance of faces that all have a vertex.
C19_FreshRangesEnd ==
    (Fresh /\ ret = "true" /\ EmptyFaces(faces) = {}) => TraversalsEnd

(***************************************************************************)
(* C20: after a successful load, for every edge e the half-edge            *)
(* h = edgeAssociatedHalfedge(e, true) points from the lower-indexed to    *)
(* the higher-indexed endpoint (halfedgeSourceVertex(h) <=                 *)
(* halfedgeTargetVertex(h)), and edgeAssociatedHalfedge(e, false) points   *)
(* the other way.                                                          *)
(***************************************************************************)
C20_EdgeDirection ==
    ret = "true" =>
        \A e \in Edges :
            LET h == edgeAssociatedHalfedge(this, e, TRUE)
                g == edgeAssociatedHalfedge(this, e, FALSE)
            IN /\ halfedgeSourceVertex(this, h) <= halfedgeTargetVertex(this, h)
               /\ halfedgeSourceVertex(this, g) >= halfedgeTargetVertex(this, g)
               /\ SourceTarget(g) = <<halfedgeTargetVertex(this, h), halfedgeSourceVertex(this, h)>>

\* A reloaded mesh with an edge between two different vertices whose only
\* face runs along it from the higher to the lower vertex.
C20_Witness ==
    /\ ret = "true"
    /\ loads = 2
    /\ \E e \in Edges :
         LET h == edgeAssociatedHalfedge(this, e, TRUE)
             g == edgeAssociatedHalfedge(this, e, FALSE)
         IN /\ halfedgeSourceVertex(this, h) < halfedgeTargetVertex(this, h)
            /\ valid(halfedgeTargetVertex(this, h))
            /\ valid(halfedgeAssociatedFace(this, g))
            /\ ~valid(halfedgeAssociatedFace(this, h))

\* Sequence p is an initial part of sequence q.
IsPrefix(p, q) == Len(p) <= Len(q) /\ \A i \in 1..Len(p) : p[i] = q[i]

\* Every reader has so far been given what it gets when it runs alone, and
\* a reader whose loop is over has been given all of it.
ReadersAgree ==
    \A r \in Readers :
        readers[r] # Idle =>
            /\ IsPrefix(readers[r].yielded, readers[r].alone)
            /\ ~RangeMore(readers[r].range, readers[r].it) =>
                   readers[r].yielded = readers[r].alone

Wrapped(x) == x % (2^SizeBits)

\* Other handles the held one is compared with.
ComparedWith == HandleInputs \cup {handle.idx}

(***************************************************************************)
(* C22: for each of the four handle classes, a default-constructed handle  *)
(* is invalid; valid() is true exactly when idx() is not the maximum;      *)
(* reset() makes the handle invalid; the comparisons agree with the        *)
(* integer comparison of the idx() values; +, -, ++ and -- act on idx()    *)
(* modulo 2^w without a bounds check, so (h + n) - n = h and incrementing  *)
(* the sentinel gives the valid handle with idx() = 0.                     *)
(***************************************************************************)
C22_HandleArithmetic ==
    LET h == handle.idx
    IN /\ handle.type \in IndexTypes
       /\ handle.by = "default" => ~valid(h)
       /\ valid(h) <=> h # 2^SizeBits - 1
       /\ ~valid(IndexReset(h))
       /\ handle.by = "reset" => ~valid(h)
       /\ \A o \in ComparedWith :
            /\ IndexEq(h, o) <=> h = o
            /\ IndexNe(h, o) <=> h # o
            /\ IndexGe(h, o) <=> h >= o
            /\ IndexGt(h, o) <=> h > o
            /\ IndexLe(h, o) <=> h <= o
            /\ IndexLt(h, o) <=> h < o
       /\ IndexInc(h) = Wrapped(h + 1)
       /\ IndexDec(h) = Wrapped(h - 1)
       /\ \A n \in (0 - MaxStep)..MaxStep :
            /\ IndexPlus(h, n) = Wrapped(h + n)
            /\ IndexMinus(h, n) = Wrapped(h - n)
            /\ IndexMinus(IndexPlus(h, n), n) = h
       /\ ~valid(h) => IndexInc(h) = 0 /\ valid(IndexInc(h))

\* An edge handle that was default-constructed, hence the sentinel, and
\* then incremented once: it is the valid handle 0.
C22_Witness ==
    /\ handle.type = "EdgeIndex"
    /\ handle.by = "++" /\ handle.ops = 1
    /\ handle.idx = 0

\* Range q reaches end() within numHalfedges() increments.
ReachesEnd(q) == Diverges \notin Range(q) /\ Len(q) <= numHalfedges(this)

\* Every half-edge range of the instance reaches end(), whatever the
\* center and the start.
HalfedgeRangesReachEnd ==
    /\ \A v \in AnyHandle(numVertices(this)) : \A out, cw \in BOOLEAN :
         \A s \in AnyHandle(numHalfedges(this)) :
           ReachesEnd(vertexHalfedges(this, v, out, cw, s))
    /\ \A f \in AnyHandle(numFaces(this)) : \A order \in BOOLEAN :
         \A s \in AnyHandle(numHalfedges(this)) :
           ReachesEnd(faceHalfedges(this, f, order, s))

(***************************************************************************)
(* C23: in every state reached by any sequence of load calls on one        *)
(* instance, a load that returned false included, incrementing begin() of  *)
(* any faceHalfedges or vertexHalfedges range, whatever its center and     *)
(* start, reaches end() after at most numHalfedges() increments and reads  *)
(* nothing out of bounds.                                                  *)
(***************************************************************************)
C23_IterationTerminates ==
    ret # "trap" => HalfedgeRangesReachEnd

\* The arguments of the load calls made so far determine the outcome: what
\* a freshly constructed instance returns and holds after the last of them.
OnFreshInstance(npoints, fs, ub) ==
    load([vertexInfo |-> <<>>, halfedgeInfo |-> <<>>, faceInfo |-> <<>>], npoints, fs, ub)

(***************************************************************************)
(* C24: the outcome of load depends only on its arguments and not on what  *)
(* the instance held before: a load on an instance that was loaded before  *)
(* returns the boolean and leaves the arrays that the same call gives on a *)
(* freshly constructed instance, so that loading one valid input twice     *)
(* succeeds both times with the same counts.                               *)
(***************************************************************************)
C24_LoadIgnoresPreviousContents ==
    (loads >= 1 /\ ret # "trap" /\ EmptyFaces(faces) = {}) =>
        LET fresh == OnFreshInstance(points, faces, <<>>)
        IN /\ (ret = "true") = (fresh.ret = "true")
           /\ this = fresh.m

\* The elements a traversal yields, be it one that ends or one that does not.
Yielded(q) == Range(q) \ {Diverges}

\* Whatever the three half-edge ranges yield is incident to their center.
YieldedAreIncident ==
    /\ \A v \in Vertices : \A cw \in BOOLEAN : \A s \in AnyHandle(numHalfedges(this)) :
         /\ \A h \in Yielded(vertexHalfedges(this, v, TRUE, cw, s)) :
              halfedgeSourceVertex(this, h) = v
         /\ \A h \in Yielded(vertexHalfedges(this, v, FALSE, cw, s)) :
              halfedgeTargetVertex(this, h) = v
    /\ \A f \in Faces : \A order \in BOOLEAN : \A s \in AnyHandle(numHalfedges(this)) :
         \A h \in Yielded(faceHalfedges(this, f, order, s)) :
              halfedgeAssociatedFace(this, h) = f

(***************************************************************************)
(* C25: after a successful load every half-edge yielded by                 *)
(* vertexHalfedges(v, true, cw, start) has source v and every half-edge    *)
(* yielded by vertexHalfedges(v, false, cw, start) has target v, for every *)
(* vertex v, direction and start; every half-edge yielded by               *)
(* faceHalfedges(f, order, start) has face f.                              *)
(***************************************************************************)
C25_YieldedHalfedgesAreIncident ==
    ret = "true" => YieldedAreIncident

\* Face f, as given to load, goes through vertex v.
FaceContains(f, v) == \E i \in 1..Len(faces[f + 1]) : faces[f + 1][i] = v

\* Everything vertexFaces yields around v is a face of the mesh through v.
FacesAroundAreFaces(v) ==
    \A cw \in BOOLEAN : \A s \in AnyHandle(numFaces(this)) :
        \A f \in Yielded(vertexFaces(this, v, cw, s)) :
            /\ valid(f)
            /\ f < numFaces(this)
            /\ FaceContains(f, v)

(***************************************************************************)
(* C26: after a successful load every element yielded by                   *)
(* vertexFaces(v, cw, start) is a valid face handle, with an index below   *)
(* numFaces(), of a face that contains v; this holds at boundary vertices  *)
(* too: the missing face of a boundary half-edge is never yielded.         *)
(***************************************************************************)
C26_VertexFacesYieldsFaces ==
    ret = "true" => \A v \in Vertices : FacesAroundAreFaces(v)

\* Sequence q with P applied to each of its elements; a traversal that
\* does not end stays one that does not end.
Projected(P(_), q) == [i \in 1..Len(q) |-> IF q[i] = Diverges THEN Diverges ELSE P(q[i])]

TargetOf(h) == halfedgeTargetVertex(this, h)

FaceOf(h) == halfedgeAssociatedFace(this, h)

EdgeOf(h) == halfedgeAssociatedEdge(this, h)

(***************************************************************************)
(* C27: the derived ranges are element-wise projections of the primitive   *)
(* ranges with the same center, the same direction and the default start:  *)
(* vertexVertices, vertexFaces and vertexEdges(v, cw) have the length of   *)
(* vertexHalfedges(v, true, cw) and their i-th elements are the target,    *)
(* the face and the edge of its i-th half-edge; faceVertices and           *)
(* faceEdges(f, order) are obtained likewise from faceHalfedges(f, order). *)
(***************************************************************************)
C27_DerivedRangesProject ==
    ret # "trap" =>
        /\ \A v \in AnyHandle(numVertices(this)) : \A cw \in BOOLEAN :
             LET q == vertexHalfedges(this, v, TRUE, cw, SizeMax)
             IN /\ vertexVertices(this, v, cw, SizeMax) = Projected(TargetOf, q)
                /\ vertexFaces(this, v, cw, SizeMax) = Projected(FaceOf, q)
                /\ vertexEdges(this, v, cw, SizeMax) = Projected(EdgeOf, q)
        /\ \A f \in AnyHandle(numFaces(this)) : \A order \in BOOLEAN :
             LET q == faceHalfedges(this, f, order, SizeMax)
             IN /\ faceVertices(this, f, order, SizeMax) = Projected(TargetOf, q)
                /\ faceEdges(this, f, order, SizeMax) = Projected(EdgeOf, q)

\* The tetrahedron: three half-edges leave vertex 0, towards three different
\* vertices, in three different faces, on three different edges.
C27_Witness ==
    /\ Fresh /\ ret = "true" /\ faces = Tetrahedron.faces
    /\ Len(vertexHalfedges(this, 0, TRUE, TRUE, SizeMax)) = 3
    /\ Cardinality(Range(vertexVertices(this, 0, TRUE, SizeMax))) = 3
    /\ Cardinality(Range(vertexFaces(this, 0, TRUE, SizeMax))) = 3
    /\ Cardinality(Range(vertexEdges(this, 0, TRUE, SizeMax))) = 3
    /\ Len(faceVertices(this, 0, TRUE, SizeMax)) = 3

\* The boundary steps of the loaded faces that start at vertex v, and the
\* first of them in face order.
StepsFrom(v) == {p \in Steps(faces) : StepPair(faces, p)[1] = v}

FirstStepFrom(v) ==
    CHOOSE p \in StepsFrom(v) :
        \A q \in StepsFrom(v) : p[1] < q[1] \/ (p[1] = q[1] /\ p[2] <= q[2])

\* The outgoing half-edge of v is the half-edge of the first step from v,
\* and the ingoing half-edge of v is its opposite.
OutgoingIsFirstStep(v) ==
    LET h == vertexOutgoingHalfedge(this, v)
        g == vertexIngoingHalfedge(this, v)
        p == FirstStepFrom(v)
    IN /\ valid(h)
       /\ halfedgeSourceVertex(this, h) = v
       /\ valid(halfedgeAssociatedFace(this, h))
       /\ halfedgeAssociatedFace(this, h) = p[1]
       /\ halfedgeTargetVertex(this, h) = StepPair(faces, p)[2]
       /\ g = halfedgeOppositeHalfedge(this, h)
       /\ halfedgeTargetVertex(this, g) = v

(***************************************************************************)
(* C28: after a successful load every vertex v that lies in at least one   *)
(* face has a valid vertexOutgoingHalfedge(v), with source v and a valid   *)
(* face: the half-edge of the first boundary step, in face order, that     *)
(* starts at v; and vertexIngoingHalfedge(v) is its opposite, with         *)
(* target v.                                                               *)
(***************************************************************************)
C28_OutgoingHalfedgeOfVertex ==
    ret = "true" => \A v \in Vertices : ~Isolated(v) => OutgoingIsFirstStep(v)

\* The part of C28 that the code keeps: the same after the first load of a
\* freshly constructed instance.
C28_FreshOutgoingHalfedge ==
    (Fresh /\ ret = "true") => \A v \in Vertices : ~Isolated(v) => OutgoingIsFirstStep(v)

\* Half-edge h runs along a boundary step of a loaded face.
IsBoundaryStep(h) == \E p \in Steps(faces) : StepPair(faces, p) = SourceTarget(h)

\* Face, next and previous half-edge of every half-edge, as the loaded
\* faces determine them.
HalfedgeRecordsFollowInput ==
    \A h \in Halfedges :
        /\ valid(halfedgeAssociatedFace(this, h)) <=> IsBoundaryStep(h)
        /\ valid(halfedgeTargetVertex(this, h))
        /\ ~valid(halfedgeAssociatedFace(this, h)) =>
              /\ ~valid(halfedgeNextHalfedge(this, h))
              /\ ~valid(halfedgePreviousHalfedge(this, h))
        /\ valid(halfedgeAssociatedFace(this, h)) =>
              /\ valid(halfedgeNextHalfedge(this, h))
              /\ valid(halfedgePreviousHalfedge(this, h))
              /\ halfedgeAssociatedFace(this, halfedgeNextHalfedge(this, h))
                    = halfedgeAssociatedFace(this, h)
              /\ halfedgeAssociatedFace(this, halfedgePreviousHalfedge(this, h))
                    = halfedgeAssociatedFace(this, h)

(***************************************************************************)
(* C29: after a successful load a half-edge h has a valid face exactly     *)
(* when source(h) -> target(h) is a boundary step of some input face;      *)
(* every half-edge without a face has an invalid next and an invalid prev  *)
(* but a valid target; every half-edge with a face has a valid next and a  *)
(* valid prev that carry the same face.                                    *)
(***************************************************************************)
C29_HalfedgeRecords ==
    ret = "true" => HalfedgeRecordsFollowInput

\* No face lists one vertex twice in a row (or alone): there is no step
\* from a vertex to itself.
NoSelfStep == \A p \in Steps(faces) : StepPair(faces, p)[1] # StepPair(faces, p)[2]

\* The part of C29 that the code keeps: the same after the first load of a
\* freshly constructed instance of faces without a step from a vertex to
\* itself.
C29_FreshHalfedgeRecords ==
    (Fresh /\ ret = "true" /\ NoSelfStep) => HalfedgeRecordsFollowInput

\* Sequence q backwards.
Backwards(q) == [i \in 1..Len(q) |-> q[Len(q) - i + 1]]

\* Around v, from every start at v, the clockwise rotation is the start
\* followed by the rest of the anti-clockwise rotation backwards; and the
\* ingoing rotation is made of the opposites of the outgoing one.
RotationsAreInverse(v) ==
    /\ \A out \in BOOLEAN :
         \A s \in (IF out THEN OutgoingHalfedges(v) ELSE IngoingHalfedges(v)) :
           LET a == vertexHalfedges(this, v, out, TRUE, s)
               b == vertexHalfedges(this, v, out, FALSE, s)
           IN /\ Diverges \notin Range(a) \cup Range(b)
              /\ Len(a) >= 1 /\ Len(b) >= 1
              /\ a = <<s>> \o Backwards(Tail(b))
    /\ \A cw \in BOOLEAN :
         LET o == vertexHalfedges(this, v, TRUE, cw, SizeMax)
             i == vertexHalfedges(this, v, FALSE, cw, SizeMax)
         IN /\ Len(i) = Len(o)
            /\ Range(i) = {halfedgeOppositeHalfedge(this, h) : h \in Range(o)}

(***************************************************************************)
(* C30: the clockwise and the anti-clockwise rotation step are inverse to  *)
(* each other: for a vertex v with a closed fan and any start s at v,      *)
(* vertexHalfedges(v, outgoing, true, s) is s followed by the reverse of   *)
(* the remaining elements of vertexHalfedges(v, outgoing, false, s), for   *)
(* both values of outgoing; and the ingoing sequence consists of the       *)
(* opposites of the half-edges of the outgoing fan.                        *)
(***************************************************************************)
C30_RotationsInverse ==
    ret = "true" => \A v \in Vertices : ClosedFan(v) => RotationsAreInverse(v)

\* The part of C30 that the code keeps: the same after the first load of a
\* freshly constructed instance.
C30_FreshRotationsInverse ==
    (Fresh /\ ret = "true") => \A v \in Vertices : ClosedFan(v) => RotationsAreInverse(v)

====
